---- MODULE Spec2Model ----
(***************************************************************************)
(* Outcome statistics of wildbg: ResultCounter and Probabilities           *)
(* (crates/engine/src/probabilities.rs) and the PositionRecord /           *)
(* InputsRecord transformation (crates/coach/src/data.rs).                 *)
(*                                                                         *)
(* f32 values are modelled bit for bit in the range the program uses: a    *)
(* finite value is m * 2^e with m = 0 or 2^23 <= |m| < 2^24, and every     *)
(* operation rounds to nearest, ties to even, as IEEE 754 binary32 does.   *)
(* The exponent is not clamped: the values of the pipeline are 0, or have  *)
(* a magnitude between 2^-40 and 4, far from the subnormal and overflow    *)
(* ranges of binary32.  A zero is kept unsigned (0.0 == -0.0 in Rust).     *)
(* The counts are u32 in the source; the bounds below keep every count and *)
(* every sum far below 2^32, so that no addition overflows.                *)
(***************************************************************************)
EXTENDS Integers, Sequences, FiniteSets, TLC

(***************************************************************************)
(* Bounds of the model.                                                    *)
(***************************************************************************)
\* largest sum() of the counter of the single-counter pipeline
MaxCount == 13
\* denominator of the grid of directly constructed distributions
GridDen == 10
\* number of rollout workers of the aggregation
NumWorkers == 3
\* total amount the workers record
MaxTotal == 4

(***************************************************************************)
(* binary32                                                                *)
(***************************************************************************)
Abs(x) == IF x < 0 THEN -x ELSE x

Sign(x) == IF x < 0 THEN -1 ELSE 1

\* precision of binary32: 24 significant bits
MantBits == 24

NaN == [k |-> "nan", m |-> 0, e |-> 0]

Inf(s) == [k |-> "inf", m |-> s, e |-> 0]

Zero == [k |-> "fin", m |-> 0, e |-> 0]

Fin(m, e) == [k |-> "fin", m |-> m, e |-> e]

IsNaN(x) == x.k = "nan"

IsFinite(x) == x.k = "fin"

\* sig * 2^e (plus a nonzero amount below sig's last bit when sticky = 1),
\* sig >= 2^24: drop bits until 25 remain, remembering whether a 1 was dropped
RECURSIVE ShiftDown(_, _, _)
ShiftDown(sig, e, sticky) ==
    IF sig < 2^(MantBits + 1) THEN <<sig, e, sticky>>
    ELSE ShiftDown(sig \div 2, e + 1, IF sig % 2 = 1 THEN 1 ELSE sticky)

\* 0 < sig < 2^23: shift up until the leading bit is bit 23
RECURSIVE ShiftUp(_, _)
ShiftUp(sig, e) ==
    IF sig >= 2^(MantBits - 1) THEN <<sig, e>> ELSE ShiftUp(sig * 2, e - 1)

\* round-to-nearest-even of the magnitude sig * 2^e (sig >= 0) to 24 bits
RoundMag(sig, e, sticky) ==
    IF sig = 0 THEN <<0, 0>>
    ELSE IF sig < 2^MantBits THEN ShiftUp(sig, e)
    ELSE LET t == ShiftDown(sig, e, sticky)
             half == t[1] % 2
             q == t[1] \div 2
             up == half = 1 /\ (t[3] = 1 \/ q % 2 = 1)
             r == IF up THEN q + 1 ELSE q
         IN  IF r = 2^MantBits THEN <<2^(MantBits - 1), t[2] + 2>>
             ELSE <<r, t[2] + 1>>

\* the binary32 nearest to s * sig * 2^e
Round(s, sig, e, sticky) ==
    LET r == RoundMag(sig, e, sticky) IN Fin(s * r[1], IF r[1] = 0 THEN 0 ELSE r[2])

\* `n as f32` for an unsigned integer n
FromU32(n) == Round(1, n, 0, 0)

Neg(x) == IF x.k = "nan" THEN x ELSE [x EXCEPT !.m = -x.m]

\* ma / mb for 0 <= r < d: the next n bits of the quotient, and the remainder
RECURSIVE LongDiv(_, _, _, _)
LongDiv(r, d, n, q) ==
    IF n = 0 THEN <<q, r>>
    ELSE IF 2 * r >= d THEN LongDiv(2 * r - d, d, n - 1, 2 * q + 1)
    ELSE LongDiv(2 * r, d, n - 1, 2 * q)

\* a / b of binary32 (division by zero gives an infinity, 0/0 gives NaN)
F32Div(a, b) ==
    IF IsNaN(a) \/ IsNaN(b) THEN NaN
    ELSE IF a.k = "inf" THEN (IF b.k = "inf" THEN NaN ELSE Inf(a.m * Sign(b.m)))
    ELSE IF b.k = "inf" THEN Zero
    ELSE IF b.m = 0 THEN (IF a.m = 0 THEN NaN ELSE Inf(Sign(a.m)))
    ELSE IF a.m = 0 THEN Zero
    ELSE LET ma == Abs(a.m)
             mb == Abs(b.m)
             t == LongDiv(ma % mb, mb, MantBits + 2, ma \div mb)
         IN  Round(Sign(a.m) * Sign(b.m), t[1], a.e - b.e - (MantBits + 2),
                   IF t[2] = 0 THEN 0 ELSE 1)

\* x shifted right by d bits, the last bit set when a 1 was shifted out
RECURSIVE ShiftRightJam(_, _)
ShiftRightJam(x, d) ==
    IF d = 0 \/ x <= 1 THEN x
    ELSE LET h == x \div 2
         IN  ShiftRightJam(IF x % 2 = 1 /\ h % 2 = 0 THEN h + 1 ELSE h, d - 1)

\* a + b of binary32: the operands carry three extra bits, the smaller one is
\* aligned to the larger, the exact sum is rounded once
F32Add(a, b) ==
    IF IsNaN(a) \/ IsNaN(b) THEN NaN
    ELSE IF a.k = "inf" THEN (IF b.k = "inf" /\ b.m # a.m THEN NaN ELSE a)
    ELSE IF b.k = "inf" THEN b
    ELSE IF a.m = 0 THEN b
    ELSE IF b.m = 0 THEN a
    ELSE LET hi == IF a.e >= b.e THEN a ELSE b
             lo == IF a.e >= b.e THEN b ELSE a
             H == Abs(hi.m) * 8
             L == ShiftRightJam(Abs(lo.m) * 8, hi.e - lo.e)
             S == Sign(hi.m) * H + Sign(lo.m) * L
         IN  Round(Sign(S), Abs(S), hi.e - 3, 0)

F32Sub(a, b) == F32Add(a, Neg(b))

\* floor(ma * mb / 2^n) for the low n bits of mb still to come, and whether a
\* 1 was dropped
RECURSIVE MulAcc(_, _, _, _, _)
MulAcc(ma, mb, n, acc, sticky) ==
    IF n = 0 THEN <<acc + mb * ma, sticky>>
    ELSE LET s == acc + (mb % 2) * ma
         IN  MulAcc(ma, mb \div 2, n - 1, s \div 2, IF s % 2 = 1 THEN 1 ELSE sticky)

\* a * b of binary32
F32Mul(a, b) ==
    IF IsNaN(a) \/ IsNaN(b) THEN NaN
    ELSE IF a.k = "inf" \/ b.k = "inf"
         THEN (IF a.m = 0 \/ b.m = 0 THEN NaN ELSE Inf(Sign(a.m) * Sign(b.m)))
    ELSE IF a.m = 0 \/ b.m = 0 THEN Zero
    ELSE LET t == MulAcc(Abs(a.m), Abs(b.m), MantBits - 1, 0, 0)
         IN  Round(Sign(a.m) * Sign(b.m), t[1], a.e + b.e + (MantBits - 1), t[2])

\* the binary32 literal num/den (a decimal literal is rounded to the nearest
\* binary32, which is what the correctly rounded quotient of two exactly
\* representable integers is)
Lit(num, den) == F32Div(FromU32(num), FromU32(den))

(***************************************************************************)
(* engine::position::GameResult, used as an index into the counter         *)
(***************************************************************************)
WinNormal == 0

WinGammon == 1

LoseNormal == 2

LoseGammon == 3

GameResult == {WinNormal, WinGammon, LoseNormal, LoseGammon}

(***************************************************************************)
(* ResultCounter: results: [u32; 4], kept as a sequence of four counts.    *)
(* The counts of the model stay far below 2^32 (the bounds cap them).      *)
(***************************************************************************)
ResultCounter_default == <<0, 0, 0, 0>>

ResultCounter_new(win_normal, win_gammon, lose_normal, lose_gammon) ==
    <<win_normal, win_gammon, lose_normal, lose_gammon>>

add(self, result) == [self EXCEPT ![result + 1] = @ + 1]

\* add_results as it would be had it been copied from add: the amount is ignored
add_results_ignoring_amount(self, result, amount) == [self EXCEPT ![result + 1] = @ + 1]

add_results(self, result, amount) == [self EXCEPT ![result + 1] = @ + amount]

sum(self) == self[1] + self[2] + self[3] + self[4]

num_of(self, result) == self[result + 1]

\* combine as it would be with the last count left out of the loop
combine_without_last(self, counter) ==
    [i \in 1..4 |-> IF i = 4 THEN self[i] ELSE self[i] + counter[i]]

combine(self, counter) == [i \in 1..4 |-> self[i] + counter[i]]

(***************************************************************************)
(* Probabilities                                                           *)
(***************************************************************************)
Probabilities(wn, wg, ln, lg) ==
    [win_normal |-> wn, win_gammon |-> wg, lose_normal |-> ln, lose_gammon |-> lg]

Probabilities_default == Probabilities(Zero, Zero, Zero, Zero)

win(self) == F32Add(self.win_normal, self.win_gammon)

\* switch_sides as it would be with the gammon fields left in place
switch_sides_normal_only(self) ==
    [win_normal |-> self.lose_normal,
     win_gammon |-> self.win_gammon,
     lose_normal |-> self.win_normal,
     lose_gammon |-> self.lose_gammon]

switch_sides(self) ==
    [win_normal |-> self.lose_normal,
     win_gammon |-> self.lose_gammon,
     lose_normal |-> self.win_normal,
     lose_gammon |-> self.win_gammon]

\* equity as it would be with a gammon counted once
equity_gammon_once(self) ==
    F32Add(F32Sub(self.win_normal, self.lose_normal),
           F32Sub(self.win_gammon, self.lose_gammon))

equity(self) ==
    F32Add(F32Sub(self.win_normal, self.lose_normal),
           F32Mul(Lit(2, 1), F32Sub(self.win_gammon, self.lose_gammon)))

\* From as it would be with the last count left out of the sum
From_partial_sum(value) ==
    LET s == FromU32(value[1] + value[2] + value[3])
    IN  [win_normal |-> F32Div(FromU32(num_of(value, WinNormal)), s),
         win_gammon |-> F32Div(FromU32(num_of(value, WinGammon)), s),
         lose_normal |-> F32Div(FromU32(num_of(value, LoseNormal)), s),
         lose_gammon |-> F32Div(FromU32(num_of(value, LoseGammon)), s)]

\* From as it would be with an empty counter turned into the default distribution
From_clamped(value) ==
    LET s == FromU32(sum(value))
    IN  IF sum(value) = 0 THEN Probabilities_default
        ELSE [win_normal |-> F32Div(FromU32(num_of(value, WinNormal)), s),
              win_gammon |-> F32Div(FromU32(num_of(value, WinGammon)), s),
              lose_normal |-> F32Div(FromU32(num_of(value, LoseNormal)), s),
              lose_gammon |-> F32Div(FromU32(num_of(value, LoseGammon)), s)]

From(value) ==
    LET s == FromU32(sum(value))
    IN  [win_normal |-> F32Div(FromU32(num_of(value, WinNormal)), s),
         win_gammon |-> F32Div(FromU32(num_of(value, WinGammon)), s),
         lose_normal |-> F32Div(FromU32(num_of(value, LoseNormal)), s),
         lose_gammon |-> F32Div(FromU32(num_of(value, LoseGammon)), s)]

(***************************************************************************)
(* Collaborators of the coach crate: the position and its identifier, and  *)
(* the inputs generator.                                                   *)
(***************************************************************************)
Positions == {"start", "bearoff"}

position_id(position) == "id:" \o position

from_id(id) == CHOOSE position \in Positions : position_id(position) = id

inputs_for_single(position) ==
    IF position = "start" THEN <<Zero, Lit(1, 1)>> ELSE <<Lit(1, 1), Zero>>

(***************************************************************************)
(* PositionRecord and InputsRecord                                         *)
(***************************************************************************)
PositionRecord_new(position, probabilities) ==
    [position_id |-> position_id(position),
     win |-> F32Add(probabilities.win_normal, probabilities.win_gammon),
     win_g |-> probabilities.win_gammon,
     lose_g |-> probabilities.lose_gammon]

\* InputsRecord::new as it would be with lose_g left out of lose_normal
InputsRecord_new_without_lose_g(record) ==
    LET position == from_id(record.position_id)
    IN  [win_normal |-> F32Sub(record.win, record.win_g),
         win_gammon |-> record.win_g,
         lose_normal |-> F32Sub(Lit(1, 1), record.win),
         lose_gammon |-> record.lose_g,
         inputs |-> inputs_for_single(position)]

InputsRecord_new(record) ==
    LET position == from_id(record.position_id)
    IN  [win_normal |-> F32Sub(record.win, record.win_g),
         win_gammon |-> record.win_g,
         lose_normal |-> F32Sub(F32Sub(Lit(1, 1), record.win), record.lose_g),
         lose_gammon |-> record.lose_g,
         inputs |-> inputs_for_single(position)]

(***************************************************************************)
(* `{}` of an f32 (core::fmt): the shortest decimal that reads back as the *)
(* same binary32, the nearest to the value among the shortest, written     *)
(* without an exponent.  Exact decimal arithmetic on little-endian digit   *)
(* sequences.                                                              *)
(***************************************************************************)
\* digits * k + carry
RECURSIVE MulSmall(_, _, _)
MulSmall(digits, k, carry) ==
    IF digits = <<>>
    THEN (IF carry = 0 THEN <<>> ELSE <<carry % 10>> \o MulSmall(<<>>, k, carry \div 10))
    ELSE LET v == Head(digits) * k + carry
         IN  <<v % 10>> \o MulSmall(Tail(digits), k, v \div 10)

RECURSIVE PowDigits(_, _)
PowDigits(base, n) ==
    IF n = 0 THEN <<1>> ELSE MulSmall(PowDigits(base, n - 1), base, 0)

PadTo(digits, n) == [i \in 1..n |-> IF i <= Len(digits) THEN digits[i] ELSE 0]

\* -1, 0, 1 as a < b, a = b, a > b, for a and b of the same length, from digit i down
RECURSIVE CmpDigits(_, _, _)
CmpDigits(a, b, i) ==
    IF i = 0 THEN 0
    ELSE IF a[i] # b[i] THEN (IF a[i] < b[i] THEN -1 ELSE 1)
    ELSE CmpDigits(a, b, i - 1)

\* digits with the t lowest digits cleared
FloorAt(digits, t) == [i \in 1..Len(digits) |-> IF i <= t THEN 0 ELSE digits[i]]

\* digits + 10^(i-1)
RECURSIVE IncAt(_, _)
IncAt(digits, i) ==
    IF i > Len(digits) THEN digits \o <<1>>
    ELSE IF digits[i] = 9 THEN IncAt([digits EXCEPT ![i] = 0], i + 1)
    ELSE [digits EXCEPT ![i] = @ + 1]

\* the t lowest digits against half a unit of digit t+1: -1 below, 0 a tie, 1 above
HalfCmp(digits, t) ==
    IF t = 0 THEN -1
    ELSE IF digits[t] # 5 THEN (IF digits[t] < 5 THEN -1 ELSE 1)
    ELSE IF \A i \in 1..(t - 1) : digits[i] = 0 THEN 0 ELSE 1

\* the shortest decimal within [low, high] (the ends count when closed),
\* nearest to x: the digits of x with the t lowest dropped, for the largest t
RECURSIVE Shortest(_, _, _, _, _)
Shortest(x, low, high, closed, t) ==
    LET n == Len(x)
        down == FloorAt(x, t)
        exact == \A i \in 1..t : x[i] = 0
        up == IF exact THEN down ELSE IncAt(down, t + 1)
        inside(c) ==
            LET l == CmpDigits(low, c, n)
                h == CmpDigits(c, high, n)
            IN  Len(c) = n /\ (l < 0 \/ (closed /\ l = 0)) /\ (h < 0 \/ (closed /\ h = 0))
        half == HalfCmp(x, t)
        preferUp == half > 0 \/ (half = 0 /\ down[t + 1] % 2 = 1)
    IN  IF t = 0 THEN x
        ELSE IF inside(down) /\ inside(up) THEN (IF preferUp THEN up ELSE down)
        ELSE IF inside(down) THEN down
        ELSE IF inside(up) THEN up
        ELSE Shortest(x, low, high, closed, t - 1)

DigitChar == <<"0", "1", "2", "3", "4", "5", "6", "7", "8", "9">>

\* digits[lo..hi] written from the highest down
RECURSIVE DigitString(_, _, _)
DigitString(digits, lo, hi) ==
    IF hi < lo THEN "" ELSE DigitChar[digits[hi] + 1] \o DigitString(digits, lo, hi - 1)

\* the highest nonzero digit of digits above position lo, or lo when there is none
RECURSIVE Top(_, _, _)
Top(digits, lo, i) ==
    IF i <= lo THEN lo ELSE IF digits[i] # 0 THEN i ELSE Top(digits, lo, i - 1)

\* the lowest nonzero digit of digits
RECURSIVE Bottom(_, _)
Bottom(digits, i) ==
    IF i >= Len(digits) \/ digits[i] # 0 THEN i ELSE Bottom(digits, i + 1)

\* `{}` of a binary32
FmtF32(x) ==
    IF IsNaN(x) THEN "NaN"
    ELSE IF x.k = "inf" THEN (IF x.m < 0 THEN "-inf" ELSE "inf")
    ELSE IF x.m = 0 THEN "0"
    ELSE LET m == Abs(x.m)
             \* the value and the midpoints to its neighbours, in units of 2^(e-2)
             point == IF x.e < 2 THEN 2 - x.e ELSE 0
             unit == IF x.e < 2 THEN PowDigits(5, point) ELSE PowDigits(2, x.e - 2)
             n == IF point > Len(unit) + 9 THEN point + 1 ELSE Len(unit) + 10
             vx == PadTo(MulSmall(unit, 4 * m, 0), n)
             vh == PadTo(MulSmall(unit, 4 * m + 2, 0), n)
             vl == PadTo(MulSmall(unit, IF m = 2^(MantBits - 1) THEN 4 * m - 1 ELSE 4 * m - 2, 0), n)
             \* no digit of vx kept, then one, then two, ...
             c == Shortest(vx, vl, vh, m % 2 = 0, Top(vx, 1, n))
             top == Top(c, point + 1, n)
             bottom == Bottom(c, 1)
         IN  (IF x.m < 0 THEN "-" ELSE "")
             \o DigitString(c, point + 1, top)
             \o (IF bottom <= point THEN "." \o DigitString(c, bottom, point) ELSE "")

\* s[1] sep s[2] sep ... s[n]
RECURSIVE Join(_, _)
Join(s, sep) ==
    IF s = <<>> THEN ""
    ELSE IF Len(s) = 1 THEN s[1]
    ELSE s[1] \o sep \o Join(Tail(s), sep)

\* the arguments of write!(f, "{};{};{};{}", ...), formatted
DisplayFields(self) ==
    <<FmtF32(self.win_normal), FmtF32(self.win_gammon),
      FmtF32(self.lose_normal), FmtF32(self.lose_gammon)>>

to_string(self) == Join(DisplayFields(self), ";")

csv_header == Join(<<"win_normal", "win_gammon", "lose_normal", "lose_gammon">>, ";")

(***************************************************************************)
(* The directly constructed distributions: the ones of the tests, and the  *)
(* literals a/GridDen, b/GridDen, c/GridDen, d/GridDen with                *)
(* a + b + c + d = GridDen.                                                *)
(***************************************************************************)
WinTestProbabilities == Probabilities(Lit(5, 10), Lit(2, 10), Lit(1, 10), Lit(7, 100))

ToStringTestProbabilities == Probabilities(Lit(1, 21), Lit(2, 21), Lit(4, 21), Lit(5, 21))

GridProbabilities ==
    {Probabilities(Lit(t[1], GridDen), Lit(t[2], GridDen), Lit(t[3], GridDen),
                   Lit(GridDen - t[1] - t[2] - t[3], GridDen)) :
        t \in {u \in (0..GridDen) \X (0..GridDen) \X (0..GridDen) :
                  u[1] + u[2] + u[3] <= GridDen}}

DirectProbabilities ==
    GridProbabilities \cup {WinTestProbabilities, ToStringTestProbabilities}

(***************************************************************************)
(* State.                                                                  *)
(*   counter   the ResultCounter of a rollout                              *)
(*   origin    where probs comes from: "none" (not yet made), "counter"    *)
(*             (From<&ResultCounter>) or "direct" (a struct literal)       *)
(*   probs     the Probabilities                                           *)
(*   records   the PositionRecords written so far                          *)
(*   call      the last call made on probs or records, and what it         *)
(*             returned                                                    *)
(*   counters  the private ResultCounter of every rollout worker           *)
(*   pool      the workers whose counter is not yet combined into another  *)
(*   reducing  the workers are done and their counters are being combined  *)
(*   recorded  the amounts the workers recorded, by GameResult             *)
(***************************************************************************)
VARIABLES counter, origin, probs, records, call, counters, pool, reducing, recorded

vars == <<counter, origin, probs, records, call, counters, pool, reducing, recorded>>

pipeline == <<counter, origin, probs, records, call>>

aggregation == <<counters, pool, reducing, recorded>>

Workers == 1..NumWorkers

NoCall == [op |-> "none", n |-> 0, val |-> <<>>]

Init ==
    /\ counter = ResultCounter_default
    /\ origin = "none"
    /\ probs = Probabilities_default
    /\ records = <<>>
    /\ call = NoCall
    /\ counters = [w \in Workers |-> ResultCounter_default]
    /\ pool = Workers
    /\ reducing = FALSE
    /\ recorded = ResultCounter_default

(***************************************************************************)
(* One rollout: results are counted, the counter is converted, the         *)
(* probabilities are inspected, stored and expanded.                       *)
(***************************************************************************)
Add(result) ==
    /\ origin = "none"
    /\ sum(counter) + 1 <= MaxCount
    /\ counter' = add(counter, result)
    /\ UNCHANGED <<origin, probs, records, call, aggregation>>

AddResults(result, amount) ==
    /\ origin = "none"
    /\ sum(counter) + amount <= MaxCount
    /\ counter' = add_results(counter, result, amount)
    /\ UNCHANGED <<origin, probs, records, call, aggregation>>

FromCounter ==
    /\ origin = "none"
    /\ probs' = From(counter)
    /\ origin' = "counter"
    /\ call' = [op |-> "from", n |-> 1, val |-> probs']
    /\ UNCHANGED <<counter, records, aggregation>>

Construct(p) ==
    /\ origin = "none"
    /\ counter = ResultCounter_default
    /\ probs' = p
    /\ origin' = "direct"
    /\ call' = [op |-> "construct", n |-> 1, val |-> p]
    /\ UNCHANGED <<counter, records, aggregation>>

\* probs has just been made.  The methods below take &self and return a value:
\* what one returns does not depend on the calls made before it, so each is
\* called on a probs fresh from its construction.
Fresh == call.op \in {"from", "construct"}

Win ==
    /\ Fresh
    /\ call' = [op |-> "win", n |-> 1, val |-> win(probs)]
    /\ UNCHANGED <<counter, origin, probs, records, aggregation>>

Equity ==
    /\ Fresh
    /\ call' = [op |-> "equity", n |-> 1, val |-> equity(probs)]
    /\ UNCHANGED <<counter, origin, probs, records, aggregation>>

\* probs.switch_sides(), or switch_sides() of what the last switch_sides() returned
SwitchSides ==
    /\ Fresh \/ (call.op = "switch_sides" /\ call.n = 1)
    /\ call' = IF call.op = "switch_sides"
               THEN [op |-> "switch_sides", n |-> 2, val |-> switch_sides(call.val)]
               ELSE [op |-> "switch_sides", n |-> 1, val |-> switch_sides(probs)]
    /\ UNCHANGED <<counter, origin, probs, records, aggregation>>

Display ==
    /\ Fresh
    /\ call' = [op |-> "to_string", n |-> Len(DisplayFields(probs)), val |-> to_string(probs)]
    /\ UNCHANGED <<counter, origin, probs, records, aggregation>>

NewPositionRecord(position) ==
    /\ Fresh
    /\ records = <<>>
    /\ records' = Append(records, PositionRecord_new(position, probs))
    /\ call' = [op |-> "PositionRecord::new", n |-> 1, val |-> records'[1]]
    /\ UNCHANGED <<counter, origin, probs, aggregation>>

NewInputsRecord ==
    /\ records # <<>>
    /\ call.op = "PositionRecord::new"
    /\ call' = [op |-> "InputsRecord::new", n |-> 1, val |-> InputsRecord_new(records[1])]
    /\ UNCHANGED <<counter, origin, probs, records, aggregation>>

Next ==
    \/ \E result \in GameResult : Add(result)
    \/ \E result \in GameResult, amount \in 0..MaxCount : AddResults(result, amount)
    \/ FromCounter
    \/ \E p \in DirectProbabilities : Construct(p)
    \/ Win
    \/ Equity
    \/ SwitchSides
    \/ Display
    \/ \E position \in Positions : NewPositionRecord(position)
    \/ NewInputsRecord

Spec == Init /\ [][Next]_vars

(***************************************************************************)
(* The rollout workers: each records results in its own counter, then the  *)
(* counters are combined two at a time, in any order.                      *)
(***************************************************************************)
WorkerAdd(w, result) ==
    /\ ~reducing
    /\ w \in pool
    /\ sum(recorded) + 1 <= MaxTotal
    /\ counters' = [counters EXCEPT ![w] = add(@, result)]
    /\ recorded' = [recorded EXCEPT ![result + 1] = @ + 1]
    /\ UNCHANGED <<pool, reducing, pipeline>>

WorkerAddResults(w, result, amount) ==
    /\ ~reducing
    /\ w \in pool
    /\ sum(recorded) + amount <= MaxTotal
    /\ counters' = [counters EXCEPT ![w] = add_results(@, result, amount)]
    /\ recorded' = [recorded EXCEPT ![result + 1] = @ + amount]
    /\ UNCHANGED <<pool, reducing, pipeline>>

\* counters[w] = counters[w].combine(&counters[v]), and v's counter is dropped
\* (a worker out of the pool has no counter: its entry is left at the default)
Combine(w, v) ==
    /\ w \in pool
    /\ v \in pool
    /\ w # v
    /\ counters' = [counters EXCEPT ![w] = combine(@, counters[v]),
                                    ![v] = ResultCounter_default]
    /\ pool' = pool \ {v}
    /\ reducing' = TRUE
    /\ UNCHANGED <<recorded, pipeline>>

NextWorkers ==
    \/ \E w \in Workers, result \in GameResult : WorkerAdd(w, result)
    \/ \E w \in Workers, result \in GameResult, amount \in 0..MaxTotal :
           WorkerAddResults(w, result, amount)
    \/ \E w \in Workers, v \in Workers : Combine(w, v)

SpecWorkers == Init /\ [][NextWorkers]_vars

(***************************************************************************)
(* Exact arithmetic for the properties: a binary32 in [-1, 1] as an        *)
(* integer number of units of 2^-30 (rounded down when it is no multiple;  *)
(* the comparisons below keep a unit of slack per operand).                *)
(***************************************************************************)
One == Lit(1, 1)

Two == Lit(2, 1)

\* a < b of binary32 (false when either is NaN)
F32Lt(a, b) ==
    IF IsNaN(a) \/ IsNaN(b) THEN FALSE
    ELSE IF a.k = "inf" \/ b.k = "inf"
         THEN (IF a.k = "inf" /\ b.k = "inf" THEN a.m < b.m
               ELSE IF a.k = "inf" THEN a.m < 0 ELSE b.m > 0)
    ELSE IF a.m <= 0 /\ b.m >= 0 THEN a.m < b.m
    ELSE IF a.m >= 0 /\ b.m <= 0 THEN FALSE
    ELSE IF a.m > 0 THEN a.e < b.e \/ (a.e = b.e /\ a.m < b.m)
    ELSE a.e > b.e \/ (a.e = b.e /\ a.m < b.m)

F32Le(a, b) == F32Lt(a, b) \/ (~IsNaN(a) /\ a = b)

Scaled(x) == IF x.e >= -30 THEN x.m * 2^(x.e + 30) ELSE x.m \div 2^(-30 - x.e)

\* 1e-6, rounded down
Tol == 2^30 \div 1000000

\* |x - y| < 1e-6
Close(x, y) == IsFinite(x) /\ IsFinite(y) /\ Abs(Scaled(x) - Scaled(y)) < Tol

Field(p, result) ==
    CASE result = WinNormal -> p.win_normal
      [] result = WinGammon -> p.win_gammon
      [] result = LoseNormal -> p.lose_normal
      [] result = LoseGammon -> p.lose_gammon

AllFinite(p) == \A result \in GameResult : IsFinite(Field(p, result))

ScaledSum(p) ==
    Scaled(p.win_normal) + Scaled(p.win_gammon) + Scaled(p.lose_normal) + Scaled(p.lose_gammon)

\* non-negative fractions summing to 1: exactly, up to the rounding of four
\* binary32 fractions (half a unit in the last place of 1.0 each)
IsValid(p) ==
    /\ AllFinite(p)
    /\ \A result \in GameResult : Field(p, result).m >= 0
    /\ Abs(ScaledSum(p) - 2^30) <= 4 * 2^5

\* x is a binary32 nearest to n/d: |x - n/d| <= half a unit in the last place of x
IsNearest(x, n, d) ==
    /\ IsFinite(x)
    /\ IF n = 0 THEN x = Zero
       ELSE x.m > 0 /\ x.e < 0 /\ 2 * Abs(x.m * d - n * 2^(-x.e)) <= d

C2_RoundTrip ==
    (call.op = "InputsRecord::new" /\ IsValid(probs)) =>
        /\ records[1] = PositionRecord_new(from_id(records[1].position_id), probs)
        /\ Close(call.val.win_normal, probs.win_normal)
        /\ Close(call.val.win_gammon, probs.win_gammon)
        /\ Close(call.val.lose_normal, probs.lose_normal)
        /\ Close(call.val.lose_gammon, probs.lose_gammon)

C2_Witness ==
    /\ call.op = "InputsRecord::new"
    /\ IsValid(probs)
    /\ sum(counter) = MaxCount
    /\ call.val.lose_normal # probs.lose_normal

\* C4: equity() of a valid distribution lies in [-2, 2]; it is 1.0, 2.0, -1.0
\* and -2.0 for the four pure distributions, and 0.0 for a distribution with
\* win_normal = lose_normal and win_gammon = lose_gammon.
C4_Equity ==
    call.op = "equity" =>
        /\ IsValid(probs) =>
               /\ F32Le(Neg(Two), call.val) /\ F32Le(call.val, Two)
               /\ probs = Probabilities(One, Zero, Zero, Zero) => call.val = One
               /\ probs = Probabilities(Zero, One, Zero, Zero) => call.val = Two
               /\ probs = Probabilities(Zero, Zero, One, Zero) => call.val = Neg(One)
               /\ probs = Probabilities(Zero, Zero, Zero, One) => call.val = Neg(Two)
        /\ (/\ AllFinite(probs)
            /\ probs.win_normal = probs.lose_normal
            /\ probs.win_gammon = probs.lose_gammon) => call.val = Zero

C4_Witness ==
    /\ call.op = "equity"
    /\ origin = "counter"
    /\ counter = ResultCounter_new(0, 1, 0, 0)
    /\ call.val = Two

\* C5: the counter of the test from_result_counter converts to
\* win_normal 0.0, win_gammon 0.03125, lose_normal 0.125, lose_gammon 0.25.
C5_FromResultCounterTest ==
    (/\ origin = "counter"
     /\ counter = add_results(add_results(add(ResultCounter_default, WinGammon),
                                          LoseNormal, 4), LoseGammon, 8)) =>
        probs = Probabilities(Zero, Lit(3125, 100000), Lit(125, 1000), Lit(25, 100))

\* C6: win() of {win_normal 0.5, win_gammon 0.2, lose_normal 0.1,
\* lose_gammon 0.07} is 0.82.
C6_WinTest ==
    (call.op = "win" /\ probs = WinTestProbabilities) => call.val = Lit(82, 100)

\* C7: converting a counter whose sum() is 0 gives no finite probability: every
\* field is NaN, never a finite (clamped, all-zero) distribution.
C7_EmptyCounterIsNaN ==
    (origin = "counter" /\ sum(counter) = 0) =>
        /\ \A result \in GameResult : IsNaN(Field(probs, result))
        /\ \A result \in GameResult : ~IsFinite(Field(probs, result))

C7_Witness ==
    /\ origin = "counter"
    /\ call.op = "from"
    /\ sum(counter) = 0
    /\ IsNaN(call.val.win_normal)

\* C8: switch_sides() swaps win_normal with lose_normal and win_gammon with
\* lose_gammon, leaves its receiver unchanged, and applied twice gives the
\* distribution it started from, field for field.
C8_SwitchSides ==
    call.op = "switch_sides" =>
        /\ call.n = 1 =>
               /\ call.val.win_normal = probs.lose_normal
               /\ call.val.win_gammon = probs.lose_gammon
               /\ call.val.lose_normal = probs.win_normal
               /\ call.val.lose_gammon = probs.win_gammon
        /\ call.n = 2 => call.val = probs
        /\ origin = "counter" => probs = From(counter)

C8_Witness ==
    /\ call.op = "switch_sides"
    /\ call.n = 2
    /\ counter = ResultCounter_new(1, 3, 4, 5)
    /\ call.val = From(counter)

\* C9: to_string() of a Probabilities is six numeric fields separated by ';',
\* for {1/21, 2/21, 4/21, 5/21} the string the to_string test expects.
C9_ToStringSixFields ==
    (call.op = "to_string" /\ probs = ToStringTestProbabilities) =>
        /\ call.n = 6
        /\ call.val = "0.04761905;0.0952381;0.14285715;0.1904762;0.23809524;0.2857143"

\* the sum of num_of(result) over the counters of the workers in S
RECURSIVE PoolCount(_, _)
PoolCount(S, result) ==
    IF S = {} THEN 0
    ELSE LET w == CHOOSE x \in S : TRUE
         IN  num_of(counters[w], result) + PoolCount(S \ {w}, result)

\* C3: combine is commutative and associative, count by count.
C3_CombineCommutativeAssociative ==
    \A a \in pool, b \in pool, c \in pool :
        /\ combine(counters[a], counters[b]) = combine(counters[b], counters[a])
        /\ combine(combine(counters[a], counters[b]), counters[c])
               = combine(counters[a], combine(counters[b], counters[c]))

C3_Witness ==
    /\ counters[1] = ResultCounter_new(1, 0, 0, 0)
    /\ counters[2] = ResultCounter_new(0, 1, 0, 0)
    /\ counters[3] = ResultCounter_new(0, 0, 0, 1)
    /\ combine(counters[1], counters[2]) # counters[1]

Conserved ==
    /\ \A result \in GameResult : PoolCount(pool, result) = recorded[result + 1]
    /\ \A w \in pool :
           pool = {w} =>
               /\ \A result \in GameResult : num_of(counters[w], result) = recorded[result + 1]
               /\ sum(counters[w]) = sum(recorded)

NeverDecreases ==
    \A w \in pool', result \in GameResult :
        num_of(counters'[w], result) >= num_of(counters[w], result)

\* C10: whatever the workers record and in whatever order their counters are
\* combined, the counts of the counters still in the pool add up to the
\* amounts recorded, the last counter left holds exactly the recorded amounts,
\* and no count of any counter ever decreases.
C10_Aggregation == [][NeverDecreases /\ Conserved']_vars

C10_Witness ==
    /\ pool = {2}
    /\ counters[2] = ResultCounter_new(1, 2, 0, 0)
    /\ recorded = ResultCounter_new(1, 2, 0, 0)

====
